---------------------------- MODULE Spec2Model ----------------------------
(***************************************************************************)
(* Model of the Dagsplott dashboard (src/app.py): the ngram fetch, the     *)
(* adjust transform, the spreadsheet export and the two Dash callbacks     *)
(* update_data and update_chart with the inputs that trigger them.         *)
(*                                                                         *)
(* Dates are day numbers: the proleptic Gregorian ordinal minus one, so    *)
(* that dayofweek(d) = d % 7 with Monday = 0 and Sunday = 6, as in pandas. *)
(* Texts and words are sequences of one-character strings.                 *)
(***************************************************************************)
EXTENDS Integers, Sequences, FiniteSets, TLC

VARIABLES
    words, avisnavn, mid_date, period_size,          \* inputs of update_data
    smooth_slider, theme, alpha, width, plot_type,   \* inputs of update_chart
    n_clicks,                                        \* btn_download
    data_store,                                      \* dcc.Store 'data_store'
    figure, summary, download,                       \* outputs of update_chart
    today,                                           \* the clock's date
    corpus,                                          \* what the corpus service holds
    service,                                         \* "up": it answers; "flaky": it may fail
    loaded,                                          \* the page has run its first callbacks
    last_input,                                      \* the property whose change was dispatched last
    api_call,                                        \* the arguments of the last api.ngram_news call
    trace                                            \* what the last dispatch ran

vars == <<words, avisnavn, mid_date, period_size, smooth_slider, theme, alpha,
          width, plot_type, n_clicks, data_store, figure, summary, download,
          today, corpus, service, loaded, last_input, api_call, trace>>

(***************************************************************************)
(* Program constants                                                       *)
(***************************************************************************)
max_days == 7400
min_days == 3
\* pd.Timestamp("20210701"), a Thursday
Anchor == 737971
\* the [:30] cap on the word list
WordCap == 30
\* smooth_slider falls back to 3 when the slider holds no value
SmoothDefault == 3

\* a missing value: NaN / pd.NA in a frame, None in a numeric property
NA == -1
\* None in a text property
None == "None"

(***************************************************************************)
(* Bounds of the model                                                     *)
(***************************************************************************)
MaxRows == 2        \* dates the corpus holds
MaxCount == 1       \* largest daily count the corpus holds
MaxTextLen == 3     \* length of a typed word-list text
MaxClicks == 1      \* clicks on the download button

(***************************************************************************)
(* Sequence helpers                                                        *)
(***************************************************************************)
Min2(a, b) == IF a <= b THEN a ELSE b

RECURSIVE SumSeq(_)
SumSeq(s) == IF s = <<>> THEN 0 ELSE Head(s) + SumSeq(Tail(s))

\* all sequences over S of length 0..n
RECURSIVE SeqsUpTo(_, _)
SeqsUpTo(S, n) ==
    IF n = 0 THEN {<<>>}
    ELSE LET shorter == SeqsUpTo(S, n - 1)
         IN  shorter \cup {Append(s, x) : s \in {t \in shorter : Len(t) = n - 1}, x \in S}

\* all orderings of the set S as duplicate-free sequences
RECURSIVE Orderings(_)
Orderings(S) ==
    IF S = {} THEN {<<>>}
    ELSE UNION {{<<x>> \o q : q \in Orderings(S \ {x})} : x \in S}

(***************************************************************************)
(* str.split(',') and str.strip() on a text                                *)
(***************************************************************************)
RECURSIVE SplitFrom(_, _, _, _)
SplitFrom(s, i, cur, acc) ==
    IF i > Len(s) THEN Append(acc, cur)
    ELSE IF s[i] = "," THEN SplitFrom(s, i + 1, <<>>, Append(acc, cur))
    ELSE SplitFrom(s, i + 1, Append(cur, s[i]), acc)

Split(s) == SplitFrom(s, 1, <<>>, <<>>)

RECURSIVE LStrip(_)
LStrip(w) == IF w # <<>> /\ Head(w) = " " THEN LStrip(Tail(w)) ELSE w

RECURSIVE RStrip(_)
RStrip(w) ==
    IF w # <<>> /\ w[Len(w)] = " " THEN RStrip(SubSeq(w, 1, Len(w) - 1)) ELSE w

Strip(w) == RStrip(LStrip(w))

\* list(set([w.strip() for w in words.split(',')]))[:30]: the set's iteration
\* order is not determined, so every ordering is a possible list
AllWord(text) ==
    LET stripped == {Strip(Split(text)[i]) : i \in 1..Len(Split(text))}
    IN  {SubSeq(q, 1, Min2(Len(q), WordCap)) : q \in Orderings(stripped)}

(***************************************************************************)
(* Frames (pandas DataFrame): columns in order, rows in index order, each  *)
(* row a date and one value per column; dt tells whether the index is a    *)
(* DatetimeIndex (only such an index has .dayofweek)                       *)
(***************************************************************************)
EmptyDataFrame == [cols |-> <<>>, rows |-> <<>>, dt |-> FALSE]

\* a fetch that keeps the adapter's row order
KeepOrder(rows) == rows

\* the sorted rows with the row r put after the rows of no later date
RECURSIVE InsertRow(_, _)
InsertRow(r, sorted) ==
    IF sorted = <<>> THEN <<r>>
    ELSE IF Head(sorted).date <= r.date THEN <<Head(sorted)>> \o InsertRow(r, Tail(sorted))
    ELSE <<r>> \o sorted

RECURSIVE SortFrom(_, _)
SortFrom(rows, sorted) ==
    IF rows = <<>> THEN sorted
    ELSE SortFrom(Tail(rows), InsertRow(Head(rows), sorted))

\* DataFrame.sort_index(): the rows in ascending date order
SortIndex(rows) == SortFrom(rows, <<>>)

\* fillna(0) on one row
FillNaRow(r) ==
    [date |-> r.date, vals |-> [c \in 1..Len(r.vals) |-> IF r.vals[c] = NA THEN 0 ELSE r.vals[c]]]


(***************************************************************************)
(* The corpus adapter api.ngram_news, a black box.  The corpus maps each   *)
(* of its dates to the counts of the words printed that day (NA: none);    *)
(* one of its two words is printed once on every date it has.  A call      *)
(* answers with a frame (kind "frame": one column per requested word that  *)
(* occurs in the period, one row per date with an occurrence, in the order *)
(* the service chose), with a value that is not a frame and so lacks       *)
(* .fillna (kind "nocap": AttributeError), or with any other exception     *)
(* (kind "raise": a connection or decoding error).                         *)
(***************************************************************************)
Frihet == <<"f", "r", "i", "h", "e", "t">>
CommonWord == <<"a">>
CorpusWords == {Frihet, CommonWord}

NoCapability == [kind |-> "nocap"]
Raises == [kind |-> "raise"]

AdapterCell == {NA} \cup (1..MaxCount)

\* the corpora with at most n dates, all of them in D
Corpora(D, n) ==
    UNION {[S -> {[w \in CorpusWords |-> IF w = CommonWord THEN 1 ELSE x] : x \in AdapterCell}]
           : S \in {T \in SUBSET D : Cardinality(T) <= n}}

ngram_news(word, period, title, corp, serv) ==
    LET hits(w) == {d \in DOMAIN corp : /\ d >= period[1] /\ d <= period[2]
                                        /\ w \in CorpusWords /\ corp[d][w] # NA}
        cols == SelectSeq(word, LAMBDA w : hits(w) # {})
        dates == UNION {hits(word[i]) : i \in 1..Len(word)}
    IN  {[kind |-> "frame", cols |-> cols,
          rows |-> [i \in 1..Len(q) |->
                      [date |-> q[i], vals |-> [c \in 1..Len(cols) |-> corp[q[i]][cols[c]]]]]]
            : q \in Orderings(dates)}
        \cup (IF serv = "up" THEN {} ELSE {NoCapability, Raises})

(***************************************************************************)
(* ngram (sammenlign is "" at its only call, so lines 63-66 never run)     *)
(***************************************************************************)
Period(mid) == <<mid - max_days, mid + max_days>>

ngram(word, mid, title, resp) ==
    IF resp.kind = "raise" THEN [raised |-> TRUE, res |-> EmptyDataFrame]
    ELSE IF resp.kind = "nocap" THEN [raised |-> FALSE, res |-> EmptyDataFrame]
    ELSE LET sorted == SortIndex([i \in 1..Len(resp.rows) |-> FillNaRow(resp.rows[i])])
         IN  [raised |-> FALSE,
              res |-> [cols |-> resp.cols, rows |-> sorted, dt |-> sorted # <<>>]]

(***************************************************************************)
(* DataFrame.to_json(date_format='iso') and pd.read_json: the JSON text    *)
(* maps each column to its {date: value} object, so a frame without        *)
(* columns keeps no dates and an index without dates is no DatetimeIndex   *)
(***************************************************************************)
NoData == [kind |-> "none"]

to_json(df) ==
    [kind |-> "json",
     cols |-> df.cols,
     cells |-> [c \in 1..Len(df.cols) |->
                  [i \in 1..Len(df.rows) |-> <<df.rows[i].date, df.rows[i].vals[c]>>]]]

read_json(js) ==
    LET n == IF js.cols = <<>> THEN 0 ELSE Len(js.cells[1])
    IN  [cols |-> js.cols,
         rows |-> [i \in 1..n |-> [date |-> js.cells[1][i][1],
                                   vals |-> [c \in 1..Len(js.cols) |-> js.cells[c][i][2]]]],
         dt |-> n > 0]

(***************************************************************************)
(* adjust                                                                  *)
(***************************************************************************)
\* the lower bound with the later of the two dates
LowerBoundMax(date, days) ==
    IF Anchor >= date - (days + min_days) THEN Anchor ELSE date - (days + min_days)

\* s, line 76
LowerBound(date, days) == Min2(Anchor, date - (days + min_days))

\* e, line 77
UpperBound(date, days, now) == Min2(now, date + (days - 1))

\* rows that keep their counts on Sundays
KeepSundays(rows) == rows

\* res.loc[res.index.dayofweek == 6] = pd.NA
NullSundays(rows) ==
    [i \in 1..Len(rows) |->
        IF rows[i].date % 7 = 6
        THEN [date |-> rows[i].date, vals |-> [c \in 1..Len(rows[i].vals) |-> NA]]
        ELSE rows[i]]

\* rolling(window=smooth, min_periods=1).mean(): per cell the sum and the
\* number of the non-null values among the last smooth rows
Rolling(rows, smooth) ==
    [i \in 1..Len(rows) |->
        [date |-> rows[i].date,
         vals |-> [c \in 1..Len(rows[i].vals) |->
            LET lo == IF i - smooth + 1 < 1 THEN 1 ELSE i - smooth + 1
                obs == SelectSeq([k \in 1..(i - lo + 1) |-> rows[lo + k - 1].vals[c]],
                                 LAMBDA x : x # NA)
            IN  [sum |-> SumSeq(obs), n |-> Len(obs)]]]]

\* fillna(0) then astype(int) on a mean: no observation is NaN, filled
\* with 0; a mean of non-negative counts truncates to the integer quotient
FillTruncate(rows) ==
    [i \in 1..Len(rows) |->
        [date |-> rows[i].date,
         vals |-> [c \in 1..Len(rows[i].vals) |->
            IF rows[i].vals[c].n = 0 THEN 0
            ELSE rows[i].vals[c].sum \div rows[i].vals[c].n]]]

adjust(df, date, days, smooth, now) ==
    IF ~df.dt
    THEN \* line 80 raises AttributeError: res = pd.DataFrame()
         EmptyDataFrame
    ELSE LET s == LowerBound(date, days)
             e == UpperBound(date, days, now)
             kept == SelectSeq(df.rows, LAMBDA r : r.date >= s /\ r.date <= e)
         IN  [cols |-> df.cols,
              rows |-> FillTruncate(Rolling(NullSundays(kept), smooth)),
              dt |-> TRUE]

(***************************************************************************)
(* to_excel and dcc.send_bytes                                             *)
(***************************************************************************)
NoPayload == [kind |-> "none"]

\* an encoder that gives up on a frame without rows
to_excel_nonempty(df) ==
    IF df.rows = <<>> THEN NoPayload
    ELSE [kind |-> "xlsx", sheet |-> "Sheet1", header |-> <<"index">> \o df.cols,
          body |-> [i \in 1..Len(df.rows) |-> <<df.rows[i].date>> \o df.rows[i].vals]]

to_excel(df) ==
    [kind |-> "xlsx", sheet |-> "Sheet1", header |-> <<"index">> \o df.cols,
     body |-> [i \in 1..Len(df.rows) |-> <<df.rows[i].date>> \o df.rows[i].vals]]

send_bytes(content, filename) ==
    [kind |-> "download", content |-> content, filename |-> filename]


(***************************************************************************)
(* The callbacks                                                           *)
(***************************************************************************)
\* update_data with the word list the set gave and the adapter's answer
TitleOf(a) == IF a = "--ingen--" THEN None ELSE a

update_data(w, a, m, p, allword, resp) ==
    LET r == ngram(allword, m, TitleOf(a), resp)
    IN  [raised |-> r.raised,
         data |-> to_json(r.res),
         call |-> [word |-> allword, period |-> Period(m), title |-> TitleOf(a)]]

EmptyFigure == [traces |-> <<>>, template |-> None]
NoSummary == [text |-> "Ingen data"]
NoWindow == <<0, 0>>

\* lines 317-345 of update_chart, with days and smooth as lines 312-313
\* set them and df_for_print as adjust returned it
Draw(df, df_for_print, m, days, th, al, wi, pt, n, w, a, filnavn, now) ==
    LET traces == [c \in 1..Len(df_for_print.cols) |->
                     [x |-> [i \in 1..Len(df_for_print.rows) |-> df_for_print.rows[i].date],
                      y |-> [i \in 1..Len(df_for_print.rows) |-> df_for_print.rows[i].vals[c]],
                      mode |-> pt,
                      name |-> df_for_print.cols[c],
                      opacity |-> IF al = NA THEN 9 ELSE al,
                      width |-> IF wi = NA THEN 30 ELSE wi]]
        fig == [traces |-> traces, template |-> IF th = None THEN "plotly" ELSE th]
        summ == [text |-> "Sok", words |-> w,
                 publication |-> IF a = None THEN "Alle" ELSE a,
                 start |-> m - days, end |-> m + days]
    IN  [figure |-> fig, summary |-> summ,
         download |-> IF n > 0 THEN send_bytes(to_excel(df_for_print), filnavn)
                      ELSE NoPayload,
         encoded |-> n > 0, raw |-> df, adjusted |-> df_for_print,
         window |-> <<LowerBound(m, days), UpperBound(m, days, now)>>]

update_chart(data_json, m, p, sm, th, al, wi, pt, n, w, a, filnavn, now) ==
    IF data_json = NoData
    THEN [figure |-> EmptyFigure, summary |-> NoSummary, download |-> NoPayload,
          encoded |-> FALSE, raw |-> EmptyDataFrame, adjusted |-> EmptyDataFrame,
          window |-> NoWindow]
    ELSE LET days == IF p = NA THEN max_days ELSE p
             smooth == IF sm = NA THEN SmoothDefault ELSE sm
         IN  Draw(read_json(data_json),
                  adjust(read_json(data_json), m, days, smooth, now),
                  m, days, th, al, wi, pt, n, w, a, filnavn, now)

(***************************************************************************)
(* The callback graph: the Input lists of the two decorators               *)
(***************************************************************************)
\* update_data also listening to the theme
UpdateDataInputsWide == {"words", "avisnavn", "mid_date", "period_size", "theme"}

UpdateDataInputs == {"words", "avisnavn", "mid_date", "period_size"}

UpdateChartInputs ==
    {"data_store", "mid_date", "period_size", "smooth_slider", "theme", "alpha",
     "width", "plot_type", "btn_download"}

AllInputs == UpdateDataInputs \cup UpdateChartInputs

Filnavn == "dagsplott.xlsx"

NoCall == [word |-> <<>>, period |-> <<0, 0>>, title |-> None]

IdleTrace ==
    [fetched |-> FALSE, raised |-> FALSE, rendered |-> FALSE, encoded |-> FALSE,
     triggered |-> {}, raw |-> EmptyDataFrame, adjusted |-> EmptyDataFrame,
     window |-> NoWindow]

(***************************************************************************)
(* One change of the property prop to the new values w .. n (the others    *)
(* keep their values): Dash runs update_data if prop is one of its inputs, *)
(* writes its result to data_store, then runs update_chart if data_store   *)
(* or another of its inputs changed.  prop = "load" is the first round,    *)
(* which runs every callback with no triggering input.  When update_data   *)
(* raised, data_store is not written and the renderer may or may not still *)
(* run update_chart on its own account (chartAnyway).                      *)
(***************************************************************************)
Apply(prop, w, a, m, p, sm, th, al, wi, pt, n, fetched, raised, store1, call, fireChart, triggered) ==
    \E uc \in {update_chart(store1, m, p, sm, th, al, wi, pt, n, w, a, Filnavn, today)} :
        /\ words' = w /\ avisnavn' = a /\ mid_date' = m /\ period_size' = p
        /\ smooth_slider' = sm /\ theme' = th /\ alpha' = al /\ width' = wi
        /\ plot_type' = pt /\ n_clicks' = n
        /\ data_store' = store1
        /\ figure' = IF fireChart THEN uc.figure ELSE figure
        /\ summary' = IF fireChart THEN uc.summary ELSE summary
        /\ download' = IF fireChart THEN uc.download ELSE download
        /\ api_call' = call
        /\ last_input' = prop
        /\ loaded' = TRUE
        /\ trace' = [fetched |-> fetched,
                     raised |-> raised,
                     rendered |-> fireChart,
                     encoded |-> fireChart /\ uc.encoded,
                     triggered |-> IF fireChart THEN triggered ELSE {},
                     raw |-> IF fireChart THEN uc.raw ELSE EmptyDataFrame,
                     adjusted |-> IF fireChart THEN uc.adjusted ELSE EmptyDataFrame,
                     window |-> IF fireChart THEN uc.window ELSE NoWindow]
        /\ UNCHANGED <<today, corpus, service>>

Dispatch(prop, w, a, m, p, sm, th, al, wi, pt, n) ==
    LET fireData == prop = "load" \/ prop \in UpdateDataInputs
        direct == {prop} \cap UpdateChartInputs
        ownRun == prop = "load" \/ direct # {}
    IN  IF fireData
        THEN \E allword \in AllWord(w) :
             \E resp \in ngram_news(allword, Period(m), TitleOf(a), corpus, service) :
                \E ud \in {update_data(w, a, m, p, allword, resp)} :
                    IF ud.raised
                    THEN \E chartAnyway \in BOOLEAN :
                            Apply(prop, w, a, m, p, sm, th, al, wi, pt, n, TRUE, TRUE,
                                  data_store, ud.call, ownRun /\ chartAnyway, direct)
                    ELSE Apply(prop, w, a, m, p, sm, th, al, wi, pt, n, TRUE, FALSE,
                               ud.data, ud.call, TRUE, direct \cup {"data_store"})
        ELSE Apply(prop, w, a, m, p, sm, th, al, wi, pt, n, FALSE, FALSE,
                   data_store, api_call, ownRun, direct)

(***************************************************************************)
(* Input domains                                                           *)
(***************************************************************************)
\* the date picker's first value: 2020-07-01 minus int(max_days / 2) days
InitialMidDate == 737606 - (max_days \div 2)

\* the clock: 2021-07-10
Todays == {Anchor + 9}

\* dates around the ends of the windows the mid dates below give with a
\* period of 3 days: Anchor - 4, Anchor + 3 and Anchor + 10 are Sundays
CorpusDates == {Anchor - 4, Anchor - 1, Anchor, Anchor + 3, Anchor + 10}

MidDates == {InitialMidDate, Anchor - 2, Anchor + 8}
PeriodSizes == {3000, 3}
SmoothWindows == {7, 1, 2}
WordTexts == {Frihet, <<"a", ",">> \o Frihet}
Publications == {None, "--ingen--"}
Themes == {"plotly", None}
Alphas == {8, NA}
Widths == {25, NA}
PlotTypes == {"lines", "markers"}

TextChars == {"a", "b", " ", ","}
TypedTexts == SeqsUpTo(TextChars, MaxTextLen)

\* an empty corpus and one with a single date
SessionCorpora == {c \in Corpora({Anchor}, 1) : \A d \in DOMAIN c : c[d][Frihet] = 1}
PipelineCorpora == Corpora(CorpusDates, MaxRows)

(***************************************************************************)
(* Initial state: the layout as constructed, before the first callbacks    *)
(***************************************************************************)
InitWith(C, serv) ==
    /\ words = Frihet
    /\ avisnavn = None
    /\ mid_date = InitialMidDate
    /\ period_size = 3000
    /\ smooth_slider = 7
    /\ theme = "plotly"
    /\ alpha = 8
    /\ width = 25
    /\ plot_type = "lines"
    /\ n_clicks = 0
    /\ data_store = NoData
    /\ figure = EmptyFigure
    /\ summary = NoSummary
    /\ download = NoPayload
    /\ today \in Todays
    /\ corpus \in C
    /\ service = serv
    /\ loaded = FALSE
    /\ last_input = "none"
    /\ api_call = NoCall
    /\ trace = IdleTrace

Init == InitWith(SessionCorpora, "up")

InitFaults == InitWith(SessionCorpora, "flaky")

InitWords == InitWith(Corpora({}, 0), "up")

InitPipeline == InitWith(PipelineCorpora, "up")

(***************************************************************************)
(* Actions: the first round of callbacks and one action per input          *)
(***************************************************************************)
PageLoad ==
    /\ ~loaded
    /\ Dispatch("load", words, avisnavn, mid_date, period_size, smooth_slider,
                theme, alpha, width, plot_type, n_clicks)

ChangeWords(T) ==
    /\ loaded
    /\ \E w \in T \ {words} :
         Dispatch("words", w, avisnavn, mid_date, period_size, smooth_slider,
                  theme, alpha, width, plot_type, n_clicks)

ChangeMidDate(D) ==
    /\ loaded
    /\ \E m \in D \ {mid_date} :
         Dispatch("mid_date", words, avisnavn, m, period_size, smooth_slider,
                  theme, alpha, width, plot_type, n_clicks)

ChangePeriodSize(P) ==
    /\ loaded
    /\ \E p \in P \ {period_size} :
         Dispatch("period_size", words, avisnavn, mid_date, p, smooth_slider,
                  theme, alpha, width, plot_type, n_clicks)

ChangeSmooth(S) ==
    /\ loaded
    /\ \E sm \in S \ {smooth_slider} :
         Dispatch("smooth_slider", words, avisnavn, mid_date, period_size, sm,
                  theme, alpha, width, plot_type, n_clicks)

SetWords == ChangeWords(WordTexts)

SetAvisnavn ==
    /\ loaded
    /\ \E a \in Publications \ {avisnavn} :
         Dispatch("avisnavn", words, a, mid_date, period_size, smooth_slider,
                  theme, alpha, width, plot_type, n_clicks)

SetMidDate == ChangeMidDate({InitialMidDate, Anchor - 2})

SetPeriodSize == ChangePeriodSize({3000, NA})

SetSmooth == ChangeSmooth({7, NA})

SetTheme ==
    /\ loaded
    /\ \E th \in Themes \ {theme} :
         Dispatch("theme", words, avisnavn, mid_date, period_size, smooth_slider,
                  th, alpha, width, plot_type, n_clicks)

SetAlpha ==
    /\ loaded
    /\ \E al \in Alphas \ {alpha} :
         Dispatch("alpha", words, avisnavn, mid_date, period_size, smooth_slider,
                  theme, al, width, plot_type, n_clicks)

SetWidth ==
    /\ loaded
    /\ \E wi \in Widths \ {width} :
         Dispatch("width", words, avisnavn, mid_date, period_size, smooth_slider,
                  theme, alpha, wi, plot_type, n_clicks)

SetPlotType ==
    /\ loaded
    /\ \E pt \in PlotTypes \ {plot_type} :
         Dispatch("plot_type", words, avisnavn, mid_date, period_size, smooth_slider,
                  theme, alpha, width, pt, n_clicks)

ClickDownload ==
    /\ loaded
    /\ n_clicks < MaxClicks
    /\ Dispatch("btn_download", words, avisnavn, mid_date, period_size, smooth_slider,
                theme, alpha, width, plot_type, n_clicks + 1)

\* the session: every input
Next ==
    \/ PageLoad
    \/ SetWords
    \/ SetAvisnavn
    \/ SetMidDate
    \/ SetPeriodSize
    \/ SetSmooth
    \/ SetTheme
    \/ SetAlpha
    \/ SetWidth
    \/ SetPlotType
    \/ ClickDownload

Spec == Init /\ [][Next]_vars

\* the fetch-then-adjust pipeline over the larger corpora
FetchWords == ChangeWords(WordTexts)
FetchMidDate == ChangeMidDate(MidDates)
FetchPeriodSize == ChangePeriodSize(PeriodSizes)
Resmooth == ChangeSmooth(SmoothWindows)

NextPipeline ==
    \/ PageLoad
    \/ FetchWords
    \/ FetchMidDate
    \/ FetchPeriodSize
    \/ Resmooth

SpecPipeline == InitPipeline /\ [][NextPipeline]_vars

\* the word-list parser over every typed text
TypeWords == ChangeWords(TypedTexts)

NextWords ==
    \/ PageLoad
    \/ TypeWords

SpecWords == InitWords /\ [][NextWords]_vars

\* the fetch inputs against a corpus service that may fail
RetryWords == ChangeWords(WordTexts)
RetryMidDate == ChangeMidDate({InitialMidDate, Anchor - 2})
RetryPeriodSize == ChangePeriodSize({3000, max_days})
RetrySmooth == ChangeSmooth({7, 1})

NextFaults ==
    \/ PageLoad
    \/ RetryWords
    \/ RetryMidDate
    \/ RetryPeriodSize
    \/ RetrySmooth

SpecFaults == InitFaults /\ [][NextFaults]_vars


(***************************************************************************)
(* Properties                                                              *)
(***************************************************************************)
Days == IF period_size = NA THEN max_days ELSE period_size
Smooth == IF smooth_slider = NA THEN SmoothDefault ELSE smooth_slider

DatesOf(df) == {df.rows[i].date : i \in 1..Len(df.rows)}

\* the value the frame df holds for column c on date d
ValueOn(df, d, c) ==
    LET i == CHOOSE k \in 1..Len(df.rows) : df.rows[k].date = d
    IN  df.rows[i].vals[c]

RECURSIVE SumOver(_, _, _)
SumOver(K, df, c) ==
    IF K = {} THEN 0
    ELSE LET k == CHOOSE x \in K : TRUE
         IN  ValueOn(df, k, c) + SumOver(K \ {k}, df, c)

\* the last render was an adjust of a stored series with dates
Adjusted == trace.rendered /\ trace.raw.dt

CosmeticInputs == {"theme", "alpha", "width", "plot_type", "smooth_slider"}
FetchInputs == {"words", "avisnavn", "mid_date", "period_size"}

\* C2: a step for a cosmetic input runs update_chart on the stored series
\* and neither calls the adapter nor writes data_store; the adapter is called
\* exactly on the first round and on a change of words, publication,
\* mid_date or period_size
C2_CosmeticNeverFetches ==
    [][/\ last_input' \in CosmeticInputs =>
            /\ ~trace'.fetched
            /\ trace'.rendered
            /\ data_store' = data_store
            /\ api_call' = api_call
            /\ data_store # NoData => trace'.raw = read_json(data_store)
       /\ trace'.fetched <=> last_input' \in FetchInputs \cup {"load"}]_vars

\* a theme change that redrew a chart with traces without a fetch
C2_Witness ==
    /\ last_input = "theme"
    /\ trace.rendered
    /\ ~trace.fetched
    /\ figure.traces # <<>>

\* C4: a run of update_chart that the download button did not trigger
\* encodes nothing and returns no download payload
C4_ExportOnlyOnClick ==
    (trace.rendered /\ "btn_download" \notin trace.triggered) =>
        (~trace.encoded /\ download = NoPayload)

\* C5: no exception leaves the pipeline: every fetch returns a series
C5_NeverRaises == trace.fetched => ~trace.raised

C7_CleanWordList ==
    trace.fetched =>
        /\ Len(api_call.word) <= 30
        /\ \A i \in 1..Len(api_call.word) :
             /\ api_call.word[i] # <<>>
             /\ Head(api_call.word[i]) # " "
             /\ api_call.word[i][Len(api_call.word[i])] # " "
             /\ \A j \in 1..Len(api_call.word) : api_call.word[i] = api_call.word[j] => i = j

\* the corpus holds nothing for the words and period of the last call
NoHits ==
    \A i \in 1..Len(api_call.word) : \A d \in DOMAIN corpus :
        ~(/\ d >= api_call.period[1] /\ d <= api_call.period[2]
          /\ api_call.word[i] \in CorpusWords
          /\ corpus[d][api_call.word[i]] # NA)

C9_SortedSameColumns ==
    trace.rendered =>
        /\ \A i \in 1..(Len(trace.adjusted.rows) - 1) :
              trace.adjusted.rows[i].date < trace.adjusted.rows[i + 1].date
        /\ trace.raw.rows # <<>> =>
              /\ trace.adjusted.cols = trace.raw.cols
              /\ \A c \in 1..Len(figure.traces) : figure.traces[c].name = trace.raw.cols[c]
              /\ Len(figure.traces) = Len(trace.raw.cols)

\* two dates and two columns in the output
C9_Witness ==
    /\ trace.rendered
    /\ Len(trace.adjusted.rows) >= 2
    /\ Len(trace.adjusted.cols) = 2

\* C10: the window adjust slices to lies inside the window of the last fetch
C10_SliceInsideFetch ==
    (trace.rendered /\ data_store # NoData /\ Days \in 3..7400) =>
        /\ trace.window[1] >= api_call.period[1]
        /\ trace.window[2] <= api_call.period[2]

=============================================================================
